---- MODULE Spec2Model ----
(***************************************************************************)
(* BoxedUint (src/src/uint/boxed.rs) and its byte decoders                 *)
(* (src/src/boxed/uint/encoding.rs).                                       *)
(*                                                                         *)
(* A BoxedUint is its limb sequence, least significant limb first; TLA+    *)
(* sequences are 1-based, so limb index i of the source is element i+1.    *)
(* Machine integers are scaled down: TLC's integers are 32-bit, so a limb  *)
(* is LimbBYTES bytes wide and a usize is UsizeBITS bits wide instead of   *)
(* the 32/64 bits of the real targets.  Arithmetic on them keeps its width *)
(* (wrapping, or panicking under overflow checks).                         *)
(***************************************************************************)
EXTENDS Integers, Sequences, FiniteSets, TLC

VARIABLES
    profile,         \* build profile: "dev" or "release"
    bytes,           \* decoder input: the byte buffer
    bits_precision,  \* decoder input: the requested precision
    opA,             \* a live BoxedUint (its limbs)
    opB,             \* a second live BoxedUint (its limbs)
    origin,          \* which constructor built opA / opB
    call,            \* the last call made: its name and scalar arguments
    ret              \* what the last call did: [tag, value, trace]

vars == <<profile, bytes, bits_precision, opA, opB, origin, call, ret>>

(***************************************************************************)
(* Bounds of the model.                                                    *)
(***************************************************************************)
LimbBYTES == 2
UsizeBITS == 8
MaxBytes == 4
MaxLimbs == 2

(***************************************************************************)
(* Machine words.                                                          *)
(***************************************************************************)
LimbBITS == 8 * LimbBYTES
LimbMAX == 2^LimbBITS - 1
LimbZERO == 0
LimbONE == 1
UsizeMAX == 2^UsizeBITS - 1
IsizeMAX == 2^(UsizeBITS - 1) - 1

debug_assertions == profile = "dev"
overflow_checks == profile = "dev"

Min(m, n) == IF m <= n THEN m ELSE n
Max(m, n) == IF m >= n THEN m ELSE n

\* A call's outcome: Ok(value), Err(error) or a panic, with the loop's trace.
R(tag, value, trace) == [tag |-> tag, value |-> value, trace |-> trace]
Ok(v) == R("Ok", v, <<>>)
Err(e) == R("Err", e, <<>>)
Panic(msg) == R("Panic", msg, <<>>)

\* usize multiplication: panics under overflow checks, wraps without them.
usize_mul(m, n, checks) ==
    IF m * n > UsizeMAX
    THEN IF checks THEN Panic("attempt to multiply with overflow")
                   ELSE Ok((m * n) % (UsizeMAX + 1))
    ELSE Ok(m * n)

RECURSIVE BitXor(_, _)
BitXor(m, n) ==
    IF m = 0 THEN n
    ELSE IF n = 0 THEN m
    ELSE (((m % 2) + (n % 2)) % 2) + 2 * BitXor(m \div 2, n \div 2)

RECURSIVE BitAnd(_, _)
BitAnd(m, n) ==
    IF m = 0 \/ n = 0 THEN 0
    ELSE (m % 2) * (n % 2) + 2 * BitAnd(m \div 2, n \div 2)

(***************************************************************************)
(* The Limb primitive (crate::Limb, outside the two source files).         *)
(***************************************************************************)
RECURSIVE Limb_from_be_slice(_)
Limb_from_be_slice(chunk) ==
    IF chunk = <<>> THEN 0
    ELSE Limb_from_be_slice(SubSeq(chunk, 1, Len(chunk) - 1)) * 256
         + chunk[Len(chunk)]

RECURSIVE Limb_from_le_slice(_)
Limb_from_le_slice(chunk) ==
    IF chunk = <<>> THEN 0
    ELSE chunk[1] + 256 * Limb_from_le_slice(Tail(chunk))

\* Choice is a u8 holding 0 or 1.
Limb_is_zero(limb) == IF limb = LimbZERO THEN 1 ELSE 0

Choice_and(c, d) == BitAnd(c, d)

\* a ^ (mask & (a ^ b)), mask = the wrapping negation of the choice bit.
Limb_conditional_select(a, b, choice) ==
    LET mask == ((LimbMAX + 1) - choice) % (LimbMAX + 1)
    IN  BitXor(a, BitAnd(mask, BitXor(a, b)))

(***************************************************************************)
(* Constructors (boxed.rs).                                                *)
(***************************************************************************)
zero == Ok(<<>>)

zero_with_precision(bp) ==
    IF bp % LimbBITS # 0
    THEN Panic("precision is not a multiple of limb size")
    ELSE Ok([i \in 1..(bp \div LimbBITS) |-> LimbZERO])

one == Ok(<<LimbONE>>)

one_with_precision(bp) ==
    IF ~(bp >= LimbBITS) THEN Panic("precision too small")
    ELSE LET z == zero_with_precision(bp)
         IN  IF z.tag = "Panic" THEN z
             ELSE Ok([z.value EXCEPT ![1] = LimbONE])

max(bp) ==
    IF bp % LimbBITS # 0
    THEN Panic("precision is not a multiple of limb size")
    ELSE Ok([i \in 1..(bp \div LimbBITS) |-> LimbMAX])

from_words(words) == Ok(words)

nlimbs(u) == Len(u)

(***************************************************************************)
(* is_zero, conditional_select and chain (boxed.rs).  Each loop records in *)
(* its trace what it visited, in the order it visited it.                  *)
(***************************************************************************)
\* self.limbs.iter().fold(Choice::from(1), |acc, limb| acc & limb.is_zero())
RECURSIVE is_zero_fold(_, _, _, _)
is_zero_fold(limbs, i, acc, seen) ==
    IF i >= Len(limbs) THEN R("Ok", acc, seen)
    ELSE is_zero_fold(limbs, i + 1,
                      Choice_and(acc, Limb_is_zero(limbs[i + 1])),
                      Append(seen, i))

\* Mutant of is_zero: the fold leaves out the most significant limb.
is_zero_skip_last(self) ==
    is_zero_fold(SubSeq(self, 1, Len(self) - 1), 0, 1, <<>>)

is_zero(self) == is_zero_fold(self, 0, 1, <<>>)

\* for i in 0..a.nlimbs() { limbs[i] = Limb::conditional_select(a[i], b[i], choice) }
\* b.limbs[i] is bounds-checked in every build.
RECURSIVE select_loop(_, _, _, _, _, _)
select_loop(a, b, choice, i, limbs, seen) ==
    IF i >= nlimbs(a) THEN R("Ok", limbs, seen)
    ELSE IF i >= nlimbs(b) THEN R("Panic", "index out of bounds", seen)
    ELSE select_loop(a, b, choice, i + 1,
                     [limbs EXCEPT ![i + 1] =
                         Limb_conditional_select(a[i + 1], b[i + 1], choice)],
                     Append(seen, i))

\* Mutant of conditional_select: the loop starts at limb 1.
conditional_select_from_one(a, b, choice, dbg) ==
    IF dbg /\ nlimbs(a) # nlimbs(b)
    THEN Panic("assertion failed: a.nlimbs() and b.nlimbs() differ")
    ELSE select_loop(a, b, choice, 1, [i \in 1..nlimbs(a) |-> LimbZERO], <<>>)

conditional_select(a, b, choice, dbg) ==
    IF dbg /\ nlimbs(a) # nlimbs(b)
    THEN Panic("assertion failed: a.nlimbs() and b.nlimbs() differ")
    ELSE select_loop(a, b, choice, 0, [i \in 1..nlimbs(a) |-> LimbZERO], <<>>)

\* The combining functions handed to chain: Limb::adc, Limb::sbb (whose borrow
\* is all ones or zero, read from its top bit), and one that rotates its
\* arguments, so that a limb and a carry of the result are told apart.
ApplyF(f, a, b, carry) ==
    CASE f = "adc" ->
            <<(a + b + carry) % (LimbMAX + 1), (a + b + carry) \div (LimbMAX + 1)>>
      [] f = "sbb" ->
            LET d == a - (b + carry \div 2^(LimbBITS - 1))
            IN  IF d < 0 THEN <<d + LimbMAX + 1, LimbMAX>> ELSE <<d, LimbZERO>>
      [] f = "rot" ->
            <<carry, BitXor(a, (b + 1) % (LimbMAX + 1))>>

\* lhs.limbs.get(i).unwrap_or(&Limb::ZERO)
get_or_zero(limbs, i) == IF i < Len(limbs) THEN limbs[i + 1] ELSE LimbZERO

\* Mutant of chain_nlimbs: the shorter operand decides the length.
chain_nlimbs_min(lhs, rhs) == Min(nlimbs(lhs), nlimbs(rhs))

chain_nlimbs(lhs, rhs) == Max(nlimbs(lhs), nlimbs(rhs))

\* Mutant of chain_loop: the carry is never updated.
RECURSIVE chain_loop_stale_carry(_, _, _, _, _, _, _, _)
chain_loop_stale_carry(lhs, rhs, carry, f, n, i, limbs, calls) ==
    IF i >= n
    THEN R("Ok", [limbs |-> limbs, carry |-> carry], calls)
    ELSE LET a == get_or_zero(lhs, i)
             b == get_or_zero(rhs, i)
             r == ApplyF(f, a, b, carry)
         IN  chain_loop_stale_carry(lhs, rhs, carry, f, n, i + 1, Append(limbs, r[1]),
                  Append(calls, [i |-> i, a |-> a, b |-> b, carry |-> carry]))

\* for i in 0..nlimbs { let (limb, c) = f(a, b, carry); limbs.push(limb); carry = c }
RECURSIVE chain_loop(_, _, _, _, _, _, _, _)
chain_loop(lhs, rhs, carry, f, n, i, limbs, calls) ==
    IF i >= n
    THEN R("Ok", [limbs |-> limbs, carry |-> carry], calls)
    ELSE LET a == get_or_zero(lhs, i)
             b == get_or_zero(rhs, i)
             r == ApplyF(f, a, b, carry)
         IN  chain_loop(lhs, rhs, r[2], f, n, i + 1, Append(limbs, r[1]),
                  Append(calls, [i |-> i, a |-> a, b |-> b, carry |-> carry]))

chain(lhs, rhs, carry, f) ==
    chain_loop(lhs, rhs, carry, f, chain_nlimbs(lhs, rhs), 0, <<>>, <<>>)

(***************************************************************************)
(* Decoders (encoding.rs).                                                 *)
(***************************************************************************)
\* bytes.chunks(n): consecutive chunks of n bytes, the last one shorter when
\* the length is no multiple of n.
Chunks(bs, n) ==
    [k \in 1..((Len(bs) + n - 1) \div n) |->
        SubSeq(bs, (k - 1) * n + 1, Min(k * n, Len(bs)))]

\* Iterator::rev
Reverse(s) == [i \in 1..Len(s) |-> s[Len(s) + 1 - i]]

\* for (chunk, limb) in chunks.zip(limbs.iter_mut()) { *limb = decode(chunk) }
\* zip stops at the shorter of the two; the limb decoders copy_from_slice
\* into a limb-sized array, which panics on a chunk of another length.
ZipDecode(chunks, limbs, endian) ==
    LET n == Min(Len(chunks), Len(limbs))
    IN  IF \E i \in 1..n : Len(chunks[i]) # LimbBYTES
        THEN Panic("source slice length does not match destination slice length")
        ELSE Ok([i \in 1..Len(limbs) |->
                    IF i <= n
                    THEN IF endian = "be" THEN Limb_from_be_slice(chunks[i])
                                          ELSE Limb_from_le_slice(chunks[i])
                    ELSE limbs[i]])

\* Mutants of the decoders: the size check moved before the precision check,
\* the big-endian chunks taken front to back, the little-endian ones back to
\* front.
from_be_slice_size_first(bs, bp, checks) ==
    IF Len(bs) % LimbBYTES # 0 \/ Len(bs) * 8 > bp THEN Err("InputSize")
    ELSE IF bp % LimbBITS # 0 THEN Err("Precision")
    ELSE ZipDecode(Reverse(Chunks(bs, LimbBYTES)),
                   [i \in 1..(bp \div LimbBITS) |-> LimbZERO], "be")

from_be_slice_no_rev(bs, bp, checks) ==
    IF bp % LimbBITS # 0 THEN Err("Precision")
    ELSE IF Len(bs) % LimbBYTES # 0 \/ Len(bs) * 8 > bp THEN Err("InputSize")
    ELSE ZipDecode(Chunks(bs, LimbBYTES),
                   [i \in 1..(bp \div LimbBITS) |-> LimbZERO], "be")

from_le_slice_rev(bs, bp, checks) ==
    IF bp % LimbBITS # 0 THEN Err("Precision")
    ELSE IF Len(bs) % LimbBYTES # 0 \/ Len(bs) * 8 > bp THEN Err("InputSize")
    ELSE ZipDecode(Reverse(Chunks(bs, LimbBYTES)),
                   [i \in 1..(bp \div LimbBITS) |-> LimbZERO], "le")

from_be_slice(bs, bp, checks) ==
    IF bp % LimbBITS # 0 THEN Err("Precision")
    ELSE IF Len(bs) % LimbBYTES # 0 THEN Err("InputSize")
    ELSE LET bits == usize_mul(Len(bs), 8, checks)
         IN  IF bits.tag = "Panic" THEN bits
             ELSE IF bits.value > bp THEN Err("InputSize")
             ELSE LET z == zero_with_precision(bp)
                  IN  IF z.tag = "Panic" THEN z
                      ELSE ZipDecode(Reverse(Chunks(bs, LimbBYTES)), z.value, "be")

from_le_slice(bs, bp, checks) ==
    IF bp % LimbBITS # 0 THEN Err("Precision")
    ELSE IF Len(bs) % LimbBYTES # 0 THEN Err("InputSize")
    ELSE LET bits == usize_mul(Len(bs), 8, checks)
         IN  IF bits.tag = "Panic" THEN bits
             ELSE IF bits.value > bp THEN Err("InputSize")
             ELSE LET z == zero_with_precision(bp)
                  IN  IF z.tag = "Panic" THEN z
                      ELSE ZipDecode(Chunks(bs, LimbBYTES), z.value, "le")

(***************************************************************************)
(* Inputs.                                                                 *)
(***************************************************************************)
Profiles == {"dev", "release"}
ByteVals == {0, 1, 255}
LimbVals == {LimbZERO, LimbONE, LimbMAX}

RECURSIVE SeqsUpTo(_, _)
SeqsUpTo(S, n) ==
    IF n = 0 THEN {<<>>}
    ELSE LET shorter == SeqsUpTo(S, n - 1)
         IN  shorter \cup {Append(s, e) : s \in {t \in shorter : Len(t) = n - 1}, e \in S}

\* Buffers of every content up to MaxBytes, and longer ones, up to the longest
\* slice there is (isize::MAX bytes), holding a ramp 0, 1, 2, ...
RampBuf(n) == [i \in 1..n |-> (i - 1) % 256]
BufInputs == SeqsUpTo(ByteVals, MaxBytes) \cup {RampBuf(n) : n \in (MaxBytes + 1)..IsizeMAX}

\* Precisions around what the short buffers need, and the largest ones.
PrecInputs ==
    {p \in 0..UsizeMAX : p <= 8 * MaxBytes + LimbBITS + 1 \/ p >= UsizeMAX - LimbBITS}

NoCall == [op |-> "none"]
NoRet == R("None", <<>>, <<>>)
Panicked == ret.tag = "Panic"

(***************************************************************************)
(* The decoders applied to one input.                                      *)
(***************************************************************************)
InitDecode ==
    /\ profile \in Profiles
    /\ bytes \in BufInputs
    /\ bits_precision \in PrecInputs
    /\ opA = <<>>
    /\ opB = <<>>
    /\ origin = [r \in {"a", "b"} |-> "zero"]
    /\ call = NoCall
    /\ ret = NoRet

Call_from_be_slice ==
    /\ ~Panicked
    /\ call' = [op |-> "from_be_slice"]
    /\ ret' = from_be_slice(bytes, bits_precision, overflow_checks)
    /\ UNCHANGED <<profile, bytes, bits_precision, opA, opB, origin>>

Call_from_le_slice ==
    /\ ~Panicked
    /\ call' = [op |-> "from_le_slice"]
    /\ ret' = from_le_slice(bytes, bits_precision, overflow_checks)
    /\ UNCHANGED <<profile, bytes, bits_precision, opA, opB, origin>>

NextDecode == Call_from_be_slice \/ Call_from_le_slice

SpecDecode == InitDecode /\ [][NextDecode]_vars

(***************************************************************************)
(* Values built by the constructors, and the operations applied to them.   *)
(* A panic ends the program.                                               *)
(***************************************************************************)
Regs == {"a", "b"}
Reg(r) == IF r = "a" THEN opA ELSE opB
FnInputs == {"adc", "sbb", "rot"}
ChoiceInputs == {0, 1}
ConsPrecInputs == {k * LimbBITS + d : k \in 0..MaxLimbs, d \in {0, 1}}

InitUint ==
    /\ profile \in Profiles
    /\ bytes = <<>>
    /\ bits_precision = 0
    /\ opA = zero.value
    /\ opB = zero.value
    /\ origin = [r \in Regs |-> "zero"]
    /\ call = NoCall
    /\ ret = NoRet

\* Operands are built first and operated on afterwards; an operation leaves
\* the live values as they are, and a panic ends the program.
Operations == {"is_zero", "conditional_select", "chain"}
Building == ~Panicked /\ call.op \notin Operations

\* A constructor's value, unless it panicked, becomes register r.
Put(reg, r, res, old) == IF res.tag = "Ok" /\ r = reg THEN res.value ELSE old
Named(r, name, res) == IF res.tag = "Ok" THEN [origin EXCEPT ![r] = name] ELSE origin

New_zero(r) ==
    /\ Building
    /\ call' = [op |-> "zero", reg |-> r]
    /\ ret' = zero
    /\ opA' = Put("a", r, zero, opA)
    /\ opB' = Put("b", r, zero, opB)
    /\ origin' = Named(r, "zero", zero)
    /\ UNCHANGED <<profile, bytes, bits_precision>>

New_zero_with_precision(r, bp) ==
    /\ Building
    /\ call' = [op |-> "zero_with_precision", reg |-> r, bits_precision |-> bp]
    /\ ret' = zero_with_precision(bp)
    /\ opA' = Put("a", r, zero_with_precision(bp), opA)
    /\ opB' = Put("b", r, zero_with_precision(bp), opB)
    /\ origin' = Named(r, "zero_with_precision", zero_with_precision(bp))
    /\ UNCHANGED <<profile, bytes, bits_precision>>

New_one(r) ==
    /\ Building
    /\ call' = [op |-> "one", reg |-> r]
    /\ ret' = one
    /\ opA' = Put("a", r, one, opA)
    /\ opB' = Put("b", r, one, opB)
    /\ origin' = Named(r, "one", one)
    /\ UNCHANGED <<profile, bytes, bits_precision>>

New_one_with_precision(r, bp) ==
    /\ Building
    /\ call' = [op |-> "one_with_precision", reg |-> r, bits_precision |-> bp]
    /\ ret' = one_with_precision(bp)
    /\ opA' = Put("a", r, one_with_precision(bp), opA)
    /\ opB' = Put("b", r, one_with_precision(bp), opB)
    /\ origin' = Named(r, "one_with_precision", one_with_precision(bp))
    /\ UNCHANGED <<profile, bytes, bits_precision>>

New_max(r, bp) ==
    /\ Building
    /\ call' = [op |-> "max", reg |-> r, bits_precision |-> bp]
    /\ ret' = max(bp)
    /\ opA' = Put("a", r, max(bp), opA)
    /\ opB' = Put("b", r, max(bp), opB)
    /\ origin' = Named(r, "max", max(bp))
    /\ UNCHANGED <<profile, bytes, bits_precision>>

New_from_words(r, words) ==
    /\ Building
    /\ call' = [op |-> "from_words", reg |-> r]
    /\ ret' = from_words(words)
    /\ opA' = Put("a", r, from_words(words), opA)
    /\ opB' = Put("b", r, from_words(words), opB)
    /\ origin' = Named(r, "from_words", from_words(words))
    /\ UNCHANGED <<profile, bytes, bits_precision>>

Call_is_zero(r) ==
    /\ ~Panicked
    /\ call' = [op |-> "is_zero", reg |-> r]
    /\ ret' = is_zero(Reg(r))
    /\ UNCHANGED <<profile, bytes, bits_precision, opA, opB, origin>>

Call_conditional_select(choice) ==
    /\ ~Panicked
    /\ call' = [op |-> "conditional_select", choice |-> choice]
    /\ ret' = conditional_select(opA, opB, choice, debug_assertions)
    /\ UNCHANGED <<profile, bytes, bits_precision, opA, opB, origin>>

Call_chain(carry, f) ==
    /\ ~Panicked
    /\ call' = [op |-> "chain", carry |-> carry, f |-> f]
    /\ ret' = chain(opA, opB, carry, f)
    /\ UNCHANGED <<profile, bytes, bits_precision, opA, opB, origin>>

NextUint ==
    \/ \E r \in Regs : New_zero(r)
    \/ \E r \in Regs, bp \in ConsPrecInputs : New_zero_with_precision(r, bp)
    \/ \E r \in Regs : New_one(r)
    \/ \E r \in Regs, bp \in ConsPrecInputs : New_one_with_precision(r, bp)
    \/ \E r \in Regs, bp \in ConsPrecInputs : New_max(r, bp)
    \/ \E r \in Regs, words \in SeqsUpTo(LimbVals, MaxLimbs) : New_from_words(r, words)
    \/ \E r \in Regs : Call_is_zero(r)
    \/ \E choice \in ChoiceInputs : Call_conditional_select(choice)
    \/ \E carry \in LimbVals, f \in FnInputs : Call_chain(carry, f)

SpecUint == InitUint /\ [][NextUint]_vars

(***************************************************************************)
(* Claims about the decoders, under SpecDecode.                            *)
(***************************************************************************)
Decoded == call.op \in {"from_be_slice", "from_le_slice"}
IsErr(e) == ret.tag = "Err" /\ ret.value = e
ValidInput ==
    /\ Len(bytes) % LimbBYTES = 0
    /\ bits_precision % LimbBITS = 0
    /\ 8 * Len(bytes) <= bits_precision

\* The big-endian value of the n bytes of bs that start at index first.
RECURSIVE BeValue(_, _, _)
BeValue(bs, first, n) ==
    IF n = 0 THEN 0
    ELSE bs[first] * 256^(n - 1) + BeValue(bs, first + 1, n - 1)

\* C1 as claimed: both decoders return Err(Precision) whenever the precision
\* is not a positive multiple of Limb::BITS (P % Limb::BITS # 0, or P = 0),
\* whatever the buffer.
C1_PrecisionRejectsZero ==
    (Decoded /\ (bits_precision % LimbBITS # 0 \/ bits_precision = 0))
        => IsErr("Precision")

\* C1 as amended: both decoders return Err(Precision) exactly when
\* P % Limb::BITS # 0, whatever the buffer's content and length; P = 0 is a
\* multiple of the limb width and is never answered with Precision.
C1_PrecisionIffNotMultiple ==
    Decoded => (IsErr("Precision") <=> bits_precision % LimbBITS # 0)

C1_Witness ==
    /\ Decoded
    /\ bits_precision % LimbBITS # 0
    /\ Len(bytes) = 2 * LimbBYTES + 1
    /\ IsErr("Precision")

\* C2: both decoders return Err(InputSize) whenever the buffer's length is no
\* multiple of Limb::BYTES or 8 * len(bytes) > P.  Stated for the precisions
\* that pass the precision check the decoders make first, where nothing but
\* the size check decides the answer.
C2_InputSizeRejected ==
    (/\ Decoded
     /\ bits_precision % LimbBITS = 0
     /\ (Len(bytes) % LimbBYTES # 0 \/ 8 * Len(bytes) > bits_precision))
        => IsErr("InputSize")

\* C3: no decoder call panics: each returns Ok(value), Err(InputSize) or
\* Err(Precision), for every buffer length and precision a usize holds.
C3_DecodeNeverPanics ==
    Decoded => (ret.tag = "Ok" \/ IsErr("InputSize") \/ IsErr("Precision"))

\* C4: on valid input from_be_slice returns P / Limb::BITS limbs; limb i below
\* k = len / Limb::BYTES is the big-endian word of the i-th chunk counted from
\* the end of the buffer, and every limb from k on is zero.
C4_BeDecodeLimbs ==
    (call.op = "from_be_slice" /\ ValidInput) =>
        /\ ret.tag = "Ok"
        /\ Len(ret.value) = bits_precision \div LimbBITS
        /\ \A i \in 0..(Len(ret.value) - 1) :
              ret.value[i + 1] =
                 IF i < Len(bytes) \div LimbBYTES
                 THEN BeValue(bytes, Len(bytes) - (i + 1) * LimbBYTES + 1, LimbBYTES)
                 ELSE 0

C4_Witness ==
    /\ call.op = "from_be_slice"
    /\ ValidInput
    /\ ret.tag = "Ok"
    /\ Len(bytes) = 2 * LimbBYTES
    /\ Len(ret.value) = 3
    /\ ret.value[1] # 0
    /\ ret.value[2] # 0
    /\ ret.value[1] # ret.value[2]
    /\ ret.value[3] = 0

\* C5: on valid input from_le_slice of the reversed buffer and from_be_slice
\* of the buffer both succeed, with the same limbs.
C5_EndianSymmetry ==
    (call.op = "from_be_slice" /\ ValidInput) =>
        LET le == from_le_slice(Reverse(bytes), bits_precision, overflow_checks)
        IN  /\ ret.tag = "Ok"
            /\ le.tag = "Ok"
            /\ Len(le.value) = Len(ret.value)
            /\ \A i \in 1..Len(ret.value) : le.value[i] = ret.value[i]

C5_Witness ==
    /\ call.op = "from_be_slice"
    /\ ValidInput
    /\ ret.tag = "Ok"
    /\ Len(bytes) = 2 * LimbBYTES
    /\ 8 * Len(bytes) < bits_precision
    /\ Reverse(bytes) # bytes
    /\ ret.value[1] # ret.value[2]
    /\ from_le_slice(bytes, bits_precision, overflow_checks).value # ret.value

(***************************************************************************)
(* Claims about BoxedUint's operations, under SpecUint.                    *)
(***************************************************************************)
\* The limb indices 0 .. n-1, in order.
Indices(n) == [i \in 1..n |-> i - 1]

\* C6: for operands of one limb count conditional_select returns a value of
\* that limb count that is a, limb by limb, when choice is 0 and b when it is
\* 1, having visited every limb position for either choice.
C6_SelectTotal ==
    (call.op = "conditional_select" /\ Len(opA) = Len(opB)) =>
        /\ ret.tag = "Ok"
        /\ Len(ret.value) = Len(opA)
        /\ \A i \in 1..Len(opA) :
              ret.value[i] = IF call.choice = 0 THEN opA[i] ELSE opB[i]
        /\ ret.trace = Indices(Len(opA))

C6_Witness ==
    /\ call.op = "conditional_select"
    /\ call.choice = 1
    /\ Len(opA) = 2
    /\ Len(opB) = 2
    /\ opA[1] # opB[1]
    /\ opA[2] # opB[2]
    /\ ret.tag = "Ok"
    /\ ret.value = opB

\* C7: conditional_select panics for every pair of operands whose limb counts
\* differ, whichever is shorter, for either choice and in every build.
C7_SelectMismatchPanics ==
    (call.op = "conditional_select" /\ Len(opA) # Len(opB)) => ret.tag = "Panic"

\* C8: is_zero returns the true Choice exactly when every limb is the zero
\* word, for any limb count; so it is true of zero() and of every
\* zero_with_precision(P); its fold visits every limb.
C8_IsZero ==
    call.op = "is_zero" =>
        LET self == Reg(call.reg)
        IN  /\ ret.tag = "Ok"
            /\ ret.value \in {0, 1}
            /\ ret.value = 1 <=> \A i \in 1..Len(self) : self[i] = 0
            /\ origin[call.reg] \in {"zero", "zero_with_precision"} => ret.value = 1
            /\ ret.trace = Indices(Len(self))

C8_Witness ==
    /\ call.op = "is_zero"
    /\ Len(Reg(call.reg)) = 2
    /\ Reg(call.reg)[1] = 0
    /\ Reg(call.reg)[2] # 0
    /\ ret.tag = "Ok"
    /\ ret.value = 0

\* C9: chain calls f exactly max(nlimbs(lhs), nlimbs(rhs)) times, whatever the
\* limbs hold, handing step i the limbs lhs[i] and rhs[i], or the zero word
\* past an operand's end; the result has max(nlimbs(lhs), nlimbs(rhs)) limbs.
C9_ChainLength ==
    call.op = "chain" =>
        LET n == IF Len(opA) >= Len(opB) THEN Len(opA) ELSE Len(opB)
        IN  /\ ret.tag = "Ok"
            /\ Len(ret.trace) = n
            /\ Len(ret.value.limbs) = n
            /\ \A i \in 0..(n - 1) :
                  /\ ret.trace[i + 1].a = IF i < Len(opA) THEN opA[i + 1] ELSE 0
                  /\ ret.trace[i + 1].b = IF i < Len(opB) THEN opB[i + 1] ELSE 0

C9_Witness ==
    /\ call.op = "chain"
    /\ Len(opA) = 1
    /\ Len(opB) = 2
    /\ opB[2] # 0
    /\ ret.tag = "Ok"
    /\ Len(ret.trace) = 2
    /\ ret.trace[2].a = 0
    /\ ret.trace[2].b = opB[2]

\* C10: chain's steps run by increasing limb index from 0; step 0 gets the
\* caller's carry, step i+1 the carry f returned at step i; result limb i is
\* the limb f returned at step i; the carry returned is that of the last
\* step, and the caller's own when neither operand has a limb.
C10_ChainCarry ==
    call.op = "chain" =>
        LET n == Len(ret.trace)
            Out(i) == ApplyF(call.f, ret.trace[i].a, ret.trace[i].b, ret.trace[i].carry)
        IN  /\ ret.tag = "Ok"
            /\ \A i \in 1..n : ret.trace[i].i = i - 1
            /\ n > 0 => ret.trace[1].carry = call.carry
            /\ \A i \in 1..(n - 1) : ret.trace[i + 1].carry = Out(i)[2]
            /\ Len(ret.value.limbs) = n
            /\ \A i \in 1..n : ret.value.limbs[i] = Out(i)[1]
            /\ ret.value.carry = IF n = 0 THEN call.carry ELSE Out(n)[2]
            /\ (Len(opA) = 0 /\ Len(opB) = 0) =>
                  (ret.value.limbs = <<>> /\ ret.value.carry = call.carry)

C10_Witness ==
    /\ call.op = "chain"
    /\ call.f = "adc"
    /\ call.carry = 1
    /\ Len(opA) = 2
    /\ Len(opB) = 1
    /\ ret.tag = "Ok"
    /\ ret.trace[1].carry = 1
    /\ ret.trace[2].carry = 1
    /\ ret.value.limbs = <<0, 0>>
    /\ ret.value.carry = 1

====
